---- MODULE Spec2Model ----
(***************************************************************************)
(* Model of the alluvial Sankey pages: src/app/pages/test2.vue (one theme  *)
(* per row, theme -> year), src/app/pages/test4.vue (several themes per    *)
(* row, theme -> event) and src/unnamed/part_000 (node/link rows with a    *)
(* discriminator column and a hard-coded fallback Dataset).                *)
(*                                                                         *)
(* Strings that the code takes apart (split, trim, parseInt, localeCompare)*)
(* are sequences of one-character strings.  Opacities are in tenths.       *)
(***************************************************************************)
EXTENDS Integers, Sequences, FiniteSets, TLC

VARIABLES
    variant,      \* which page: "test2", "test4" or "part000"
    csv,          \* SpecT: the rows handed to the transformer
    out,          \* SpecT: the transformer's Dataset, Null before it ran
    phase,        \* component life: "created", "mounted", "unmounted"
    fetch,        \* the d3.csv promise: "idle", "pending", "settled"
    cause,        \* how the load ended: "none","ok","rejected","empty","invalid","drawthrew"
    loading,      \* ref loading
    error,        \* ref error: Null or a message
    currentData,  \* ref currentData: Null or a Dataset
    container,    \* chartContainer.value is an attached element
    observer,     \* resizeObserver exists and is connected
    dom,          \* what the container holds: Null (nothing) or the last draw's elements
    body,         \* tooltip divs appended to document.body, oldest first
    hover,        \* the element under the pointer that has received mouseenter
    draws,        \* number of calls of createSankeyDiagram that passed its guard
    pairs,        \* node enter/leave pairs completed on the current elements
    lastDraw,     \* the draw calls of the last handler that drew: by whom, with what, when
    event         \* name of the handler that ran last

vars == << variant, csv, out, phase, fetch, cause, loading, error, currentData,
           container, observer, dom, body, hover, draws, pairs, lastDraw, event >>

uiVars == << phase, fetch, cause, loading, error, currentData, container,
             observer, dom, body, hover, draws, pairs, lastDraw, event >>

-----------------------------------------------------------------------------
(* Bounds of the model *)

MaxRows == 2        \* rows of a CSV handed to a transformer (SpecT)
MaxDraws == 3       \* draws per component life
MaxPairs == 2       \* counted node enter/leave pairs per draw
MaxKy == 2          \* the layout's pixel-per-value scale is 1..MaxKy

-----------------------------------------------------------------------------
(* JavaScript values *)

Null == [null |-> TRUE]

\* undefined, where a string is expected: no real string has a 9-letter character
Undefined == << "undefined" >>

\* NaN, where a number is expected: below every number the model computes
NaN == 0 - 1000000

Max(a, b) == IF a >= b THEN a ELSE b

Range(s) == { s[i] : i \in 1..Len(s) }

\* sequences over S of length lo..hi
SeqsOf(S, lo, hi) == UNION { [1..n -> S] : n \in lo..hi }

\* Array.prototype.indexOf: zero-based position of the first x, or -1
IndexOf(s, x) ==
    IF \E i \in 1..Len(s) : s[i] = x
    THEN (CHOOSE i \in 1..Len(s) : s[i] = x /\ \A j \in 1..(i-1) : s[j] # x) - 1
    ELSE -1

\* [...new Set(s)]: the distinct values in first-seen order
RECURSIVE Unique(_)
Unique(s) ==
    IF s = << >> THEN << >>
    ELSE LET init == Unique(SubSeq(s, 1, Len(s) - 1))
             last == s[Len(s)]
         IN  IF last \in Range(init) THEN init ELSE Append(init, last)

\* Array.prototype.flatMap over a sequence of sequences
RECURSIVE Flatten(_)
Flatten(ss) ==
    IF ss = << >> THEN << >> ELSE Head(ss) \o Flatten(Tail(ss))

\* String.prototype.split(';'): always at least one piece
RECURSIVE Split(_)
Split(s) ==
    IF \A i \in 1..Len(s) : s[i] # ";" THEN << s >>
    ELSE LET p == CHOOSE i \in 1..Len(s) :
                      s[i] = ";" /\ \A j \in 1..(i-1) : s[j] # ";"
         IN  << SubSeq(s, 1, p - 1) >> \o Split(SubSeq(s, p + 1, Len(s)))

\* String.prototype.trim
RECURSIVE TrimLeft(_)
TrimLeft(s) ==
    IF s # << >> /\ Head(s) = " " THEN TrimLeft(Tail(s)) ELSE s

RECURSIVE TrimRight(_)
TrimRight(s) ==
    IF s # << >> /\ s[Len(s)] = " " THEN TrimRight(SubSeq(s, 1, Len(s) - 1)) ELSE s

Trim(s) == TrimRight(TrimLeft(s))

Digits == << "0", "1", "2", "3", "4", "5", "6", "7", "8", "9" >>

IsDigit(c) == c \in Range(Digits)

DigitValue(c) == IndexOf(Digits, c)

\* value of the longest prefix of digits of s, given the value acc read so far
RECURSIVE DigitsPrefix(_, _)
DigitsPrefix(s, acc) ==
    IF s # << >> /\ IsDigit(Head(s))
    THEN DigitsPrefix(Tail(s), 10 * acc + DigitValue(Head(s)))
    ELSE acc

\* parseInt(s): leading blanks skipped, an optional sign, then the digits up
\* to the first other character; NaN when there is no digit there
ParseInt(s) ==
    LET t == TrimLeft(s)
        neg == t # << >> /\ Head(t) = "-"
        u == IF t # << >> /\ Head(t) \in {"-", "+"} THEN Tail(t) ELSE t
    IN  IF u = << >> \/ ~IsDigit(Head(u)) THEN NaN
        ELSE IF neg THEN 0 - DigitsPrefix(u, 0) ELSE DigitsPrefix(u, 0)

\* a - b on numbers
Minus(a, b) == IF a = NaN \/ b = NaN THEN NaN ELSE a - b

\* collation rank of a character: blanks, then punctuation, digits, letters
CharOrder == << " ", ";", "-", "0", "1", "2", "3", "4", "5", "6", "7", "8", "9",
                "A", "B", "x" >>

CharRank(c) == IndexOf(CharOrder, c)

\* a.localeCompare(b): negative, 0 or positive
RECURSIVE LocaleCompare(_, _)
LocaleCompare(a, b) ==
    IF a = << >> /\ b = << >> THEN 0
    ELSE IF a = << >> THEN -1
    ELSE IF b = << >> THEN 1
    ELSE IF CharRank(Head(a)) < CharRank(Head(b)) THEN -1
    ELSE IF CharRank(Head(a)) > CharRank(Head(b)) THEN 1
    ELSE LocaleCompare(Tail(a), Tail(b))

-----------------------------------------------------------------------------
(* CSV rows.  d3.csv gives every row one property per header column, each *)
(* a string; a column the file does not have is undefined on every row.   *)

Field(row, name) == IF name \in DOMAIN row THEN row[name] ELSE Undefined

Column(rows, name) == [i \in 1..Len(rows) |-> Field(rows[i], name)]

\* the bijections of 1..n
Bijections(n) ==
    { p \in [1..n -> 1..n] : \A i, j \in 1..n : p[i] = p[j] => i = j }

-----------------------------------------------------------------------------
(* test2.vue: one theme per row, theme -> year *)

\* loadData, line 67: [...new Set(csvData.map(row => row.Theme))]
Test2_themes(csvData) == Unique(Column(csvData, "Theme"))

\* loadData, line 68: [...new Set(csvData.map(row => row.Year))]
Test2_years(csvData) == Unique(Column(csvData, "Year"))

\* mutant of Test2_transformCSVToSankey: year ids restart at 0
Test2_transformNoOffset(csvData, themes, years) ==
    LET themeNodes == [i \in 1..Len(themes) |->
                          [id |-> i - 1, name |-> themes[i],
                           type |-> "theme", x_position |-> 0]]
        yearNodes == [i \in 1..Len(years) |->
                          [id |-> i - 1, name |-> years[i],
                           type |-> "year", x_position |-> 1]]
        link(row) == [source |-> IndexOf(themes, Field(row, "Theme")),
                      target |-> Len(themes) + IndexOf(years, Field(row, "Year")),
                      value |-> 1,
                      description |-> Field(row, "Title"),
                      fullDescription |-> Field(row, "Description"),
                      year |-> Field(row, "Year"),
                      theme |-> Field(row, "Theme")]
    IN  [nodes |-> themeNodes \o yearNodes,
         links |-> [i \in 1..Len(csvData) |-> link(csvData[i])]]

\* mutant of Test2_transformCSVToSankey: equal rows are merged into one link
Test2_transformDistinctRows(csvData, themes, years) ==
    LET themeNodes == [i \in 1..Len(themes) |->
                          [id |-> i - 1, name |-> themes[i],
                           type |-> "theme", x_position |-> 0]]
        yearNodes == [i \in 1..Len(years) |->
                          [id |-> Len(themes) + (i - 1), name |-> years[i],
                           type |-> "year", x_position |-> 1]]
        link(row) == [source |-> IndexOf(themes, Field(row, "Theme")),
                      target |-> Len(themes) + IndexOf(years, Field(row, "Year")),
                      value |-> 1,
                      description |-> Field(row, "Title"),
                      fullDescription |-> Field(row, "Description"),
                      year |-> Field(row, "Year"),
                      theme |-> Field(row, "Theme")]
    IN  [nodes |-> themeNodes \o yearNodes,
         links |-> [i \in 1..Len(Unique(csvData)) |-> link(Unique(csvData)[i])]]

Test2_transformCSVToSankey(csvData, themes, years) ==
    LET themeNodes == [i \in 1..Len(themes) |->
                          [id |-> i - 1, name |-> themes[i],
                           type |-> "theme", x_position |-> 0]]
        yearNodes == [i \in 1..Len(years) |->
                          [id |-> Len(themes) + (i - 1), name |-> years[i],
                           type |-> "year", x_position |-> 1]]
        link(row) == [source |-> IndexOf(themes, Field(row, "Theme")),
                      target |-> Len(themes) + IndexOf(years, Field(row, "Year")),
                      value |-> 1,
                      description |-> Field(row, "Title"),
                      fullDescription |-> Field(row, "Description"),
                      year |-> Field(row, "Year"),
                      theme |-> Field(row, "Theme")]
    IN  [nodes |-> themeNodes \o yearNodes,
         links |-> [i \in 1..Len(csvData) |-> link(csvData[i])]]

-----------------------------------------------------------------------------
(* test4.vue: several themes per row, theme -> event *)

\* themeString.split(';').map(t => t.trim())
SplitThemes(themeString) ==
    LET parts == Split(themeString)
    IN  [j \in 1..Len(parts) |-> Trim(parts[j])]

\* mutant of Test4_themes: the listed values are not trimmed
Test4_themesUntrimmed(csvData) ==
    Unique(Flatten([i \in 1..Len(csvData) |-> Split(csvData[i].Theme)]))

\* loadData, lines 94-95
Test4_themes(csvData) ==
    Unique(Flatten([i \in 1..Len(csvData) |-> SplitThemes(csvData[i].Theme)]))

\* mutant of Test4_compare: the years are compared as text
Test4_compareAsText(a, b) ==
    LET yearDiff == LocaleCompare(a.Year, b.Year)
    IN  IF yearDiff # 0 THEN yearDiff ELSE LocaleCompare(a.Theme, b.Theme)

\* the comparator of lines 119-122; NaN when a year does not parse
Test4_compare(a, b) ==
    LET yearDiff == Minus(ParseInt(a.Year), ParseInt(b.Year))
    IN  IF yearDiff # 0 THEN yearDiff ELSE LocaleCompare(a.Theme, b.Theme)

\* Array.prototype.sort reads a NaN from the comparator as +0
SortOrder(v) == IF v = NaN THEN 0 ELSE v

\* the comparator is a consistent one for these rows (ECMAScript 23.1.3.30)
ConsistentCompare(rows) ==
    LET n == Len(rows)
        c(i, j) == SortOrder(Test4_compare(rows[i], rows[j]))
    IN  /\ \A i, j \in 1..n : (c(i, j) < 0) = (c(j, i) > 0)
        /\ \A i, j, k \in 1..n : c(i, j) <= 0 /\ c(j, k) <= 0 => c(i, k) <= 0
        /\ \A i, j, k \in 1..n : c(i, j) = 0 /\ c(j, k) = 0 => c(i, k) = 0

\* [...csvData].sort(cmp): the stable sorted copy when the comparator is
\* consistent, an implementation-defined order of the same rows otherwise
Test4_sortOutcomes(csvData) ==
    LET n == Len(csvData)
        c(i, j) == SortOrder(Test4_compare(csvData[i], csvData[j]))
        stable(p) == \A i, j \in 1..n :
                        i < j => \/ c(p[i], p[j]) < 0
                                 \/ c(p[i], p[j]) = 0 /\ p[i] < p[j]
        ps == IF ConsistentCompare(csvData)
              THEN { p \in Bijections(n) : stable(p) }
              ELSE Bijections(n)
    IN  { [i \in 1..n |-> csvData[p[i]]] : p \in ps }

\* mutant of Test4_transformSorted: the listed values are looked up untrimmed
Test4_transformSortedNoTrim(sortedData, themes) ==
    LET themeNodes == [i \in 1..Len(themes) |->
                          [id |-> i - 1, name |-> themes[i],
                           type |-> "theme", x_position |-> 0]]
        eventNodes == [i \in 1..Len(sortedData) |->
                          LET row == sortedData[i]
                          IN  [id |-> Len(themes) + (i - 1),
                               name |-> Field(row, "Year") \o << " ", "-", " " >>
                                            \o Field(row, "Title"),
                               type |-> "event", x_position |-> 1,
                               year |-> ParseInt(Field(row, "Year")),
                               title |-> Field(row, "Title"),
                               description |-> Field(row, "Description")]]
        known(theme) == IndexOf(themes, theme) # -1
        rowLinks(i) ==
            LET row == sortedData[i]
                found == SelectSeq(Split(row.Theme), known)
            IN  [j \in 1..Len(found) |->
                    [source |-> IndexOf(themes, found[j]),
                     target |-> Len(themes) + (i - 1),
                     value |-> 1,
                     description |-> Field(row, "Title"),
                     fullDescription |-> Field(row, "Description"),
                     year |-> ParseInt(Field(row, "Year")),
                     theme |-> found[j]]]
    IN  [nodes |-> themeNodes \o eventNodes,
         links |-> Flatten([i \in 1..Len(sortedData) |-> rowLinks(i)])]

\* lines 124-172, given the sorted copy of line 119
Test4_transformSorted(sortedData, themes) ==
    LET themeNodes == [i \in 1..Len(themes) |->
                          [id |-> i - 1, name |-> themes[i],
                           type |-> "theme", x_position |-> 0]]
        eventNodes == [i \in 1..Len(sortedData) |->
                          LET row == sortedData[i]
                          IN  [id |-> Len(themes) + (i - 1),
                               name |-> Field(row, "Year") \o << " ", "-", " " >>
                                            \o Field(row, "Title"),
                               type |-> "event", x_position |-> 1,
                               year |-> ParseInt(Field(row, "Year")),
                               title |-> Field(row, "Title"),
                               description |-> Field(row, "Description")]]
        known(theme) == IndexOf(themes, theme) # -1
        rowLinks(i) ==
            LET row == sortedData[i]
                found == SelectSeq(SplitThemes(row.Theme), known)
            IN  [j \in 1..Len(found) |->
                    [source |-> IndexOf(themes, found[j]),
                     target |-> Len(themes) + (i - 1),
                     value |-> 1,
                     description |-> Field(row, "Title"),
                     fullDescription |-> Field(row, "Description"),
                     year |-> ParseInt(Field(row, "Year")),
                     theme |-> found[j]]]
    IN  [nodes |-> themeNodes \o eventNodes,
         links |-> Flatten([i \in 1..Len(sortedData) |-> rowLinks(i)])]

\* transformCSVToSankey(csvData, themes): every Dataset the call can return
Test4_transformCSVToSankey(csvData, themes) ==
    { Test4_transformSorted(sortedData, themes) :
        sortedData \in Test4_sortOutcomes(csvData) }

-----------------------------------------------------------------------------
(* part_000: rows with a discriminator column, and the fallback Dataset *)

IsNodeRow(row) == Field(row, "type") = << "n", "o", "d", "e" >>

IsLinkRow(row) == Field(row, "type") = << "l", "i", "n", "k" >>

Part_parseCSVData(csvData) ==
    [nodes |-> SelectSeq(csvData, IsNodeRow),
     links |-> SelectSeq(csvData, IsLinkRow)]

\* a || '' on strings: '' for undefined and for the empty string
OrEmpty(s) == IF s = Undefined THEN << >> ELSE s

Part_transformData(nodes, links) ==
    [nodes |-> [i \in 1..Len(nodes) |->
                   [id |-> ParseInt(Field(nodes[i], "id")),
                    name |-> Field(nodes[i], "name"),
                    type |-> IF Field(nodes[i], "x_position") = << "0" >>
                             THEN "theme" ELSE "decade",
                    x_position |-> ParseInt(Field(nodes[i], "x_position"))]],
     links |-> [i \in 1..Len(links) |->
                   [source |-> ParseInt(Field(links[i], "source")),
                    target |-> ParseInt(Field(links[i], "target")),
                    value |-> ParseInt(Field(links[i], "value")),
                    description |-> OrEmpty(Field(links[i], "description"))]]]

\* useFallbackData, lines 99-127; its texts are never taken apart and are
\* kept whole, as one-element sequences
FallbackData ==
    LET n(i, nm, ty, x) == [id |-> i, name |-> << nm >>, type |-> ty, x_position |-> x]
        l(s, t, v, d) == [source |-> s, target |-> t, value |-> v, description |-> << d >>]
    IN  [nodes |-> << n(0, "Industrial Revolution", "theme", 0),
                      n(1, "World Wars", "theme", 0),
                      n(2, "Colonialism", "theme", 0),
                      n(3, "Economic Crisis", "theme", 0),
                      n(4, "1900-1910", "decade", 1),
                      n(5, "1910-1920", "decade", 1),
                      n(6, "1920-1930", "decade", 1),
                      n(7, "1930-1940", "decade", 1),
                      n(8, "1940-1950", "decade", 1) >>,
         links |-> << l(0, 4, 25, "Industrial Revolution to 1900s"),
                      l(0, 5, 20, "Industrial Revolution to 1910s"),
                      l(0, 6, 15, "Industrial Revolution to 1920s"),
                      l(1, 5, 30, "World Wars to 1910s"),
                      l(1, 7, 35, "World Wars to 1930s"),
                      l(1, 8, 40, "World Wars to 1940s"),
                      l(2, 4, 20, "Colonialism to 1900s"),
                      l(2, 5, 18, "Colonialism to 1910s"),
                      l(2, 6, 15, "Colonialism to 1920s"),
                      l(2, 7, 12, "Colonialism to 1930s"),
                      l(2, 8, 8, "Colonialism to 1940s"),
                      l(3, 6, 25, "Economic Crisis to 1920s"),
                      l(3, 7, 45, "Economic Crisis to 1930s"),
                      l(3, 8, 20, "Economic Crisis to 1940s") >>]

-----------------------------------------------------------------------------
(* Per-page drawing constants; opacities in tenths *)

\* test2.vue: margins l.136, minimum width l.137, nodeWidth l.172, link
\* attributes l.205 and l.207
Test2_config ==
    [marginLR |-> 40, minWidth |-> 300, nodeWidth |-> 25,
     linkOpacity |-> 7, strokeMin |-> 2, strokeAdd |-> 0,
     tooltip |-> TRUE, flowLabels |-> FALSE]

\* test4.vue: CHART_CONFIG l.18-31, link attributes l.256 and l.258
Test4_CHART_CONFIG ==
    [marginLR |-> 420, minWidth |-> 300, nodeWidth |-> 80,
     linkOpacity |-> 5, strokeMin |-> 4, strokeAdd |-> 2,
     tooltip |-> TRUE, flowLabels |-> FALSE,
     defaultOpacity |-> 5, linkOpacityHover |-> 10,
     backgroundOpacity |-> 1, nodeOpacityHighlight |-> 9]

\* part_000: margins l.139, minimum width l.140, nodeWidth l.184, link
\* attributes l.198 and l.200
Part_config ==
    [marginLR |-> 40, minWidth |-> 300, nodeWidth |-> 25,
     linkOpacity |-> 7, strokeMin |-> 2, strokeAdd |-> 0,
     tooltip |-> FALSE, flowLabels |-> TRUE]

Config(v) ==
    IF v = "test2" THEN Test2_config
    ELSE IF v = "test4" THEN Test4_CHART_CONFIG
    ELSE Part_config

\* Math.max on numbers
MathMax(a, b) == IF a = NaN \/ b = NaN THEN NaN ELSE Max(a, b)

\* Math.max(lo, d.width + add)
StrokeWidth(lo, add, width) ==
    IF width = NaN THEN NaN ELSE MathMax(lo, width + add)

-----------------------------------------------------------------------------
(* The d3-sankey layout, as far as the pages depend on it: links are      *)
(* resolved by node position (the default nodeId is d => d.index), a      *)
(* reference to no node and a cycle throw, nodes are placed in columns by *)
(* depth (justify alignment), a link's width is its value times ky.       *)

MaxOf(S) == CHOOSE x \in S : \A y \in S : y <= x

\* length of the longest chain of links ending at node n, cut at fuel links
RECURSIVE LongestTo(_, _, _)
LongestTo(edges, n, fuel) ==
    LET preds == { e[1] : e \in { f \in edges : f[2] = n } }
    IN  IF fuel = 0 \/ preds = {} THEN 0
        ELSE 1 + MaxOf({ LongestTo(edges, p, fuel - 1) : p \in preds })

SankeyLayout(data, width, nodeWidth, ky) ==
    LET n == Len(data.nodes)
        idx == 0..(n - 1)
        m == Len(data.links)
        missing == \E i \in 1..m : data.links[i].source \notin idx
                                  \/ data.links[i].target \notin idx
        edges == { << data.links[i].source, data.links[i].target >> : i \in 1..m }
        depth(i) == LongestTo(edges, i, n)
        circular == \E i \in idx : depth(i) >= n
        x == 1 + MaxOf({ depth(i) : i \in idx })
        hasSource(i) == \E e \in edges : e[1] = i
        layer(i) == IF hasSource(i) THEN depth(i) ELSE x - 1
        x0(i) == (layer(i) * (width - nodeWidth)) \div (x - 1)
    IN  IF missing \/ circular THEN [threw |-> TRUE]
        ELSE [threw |-> FALSE,
              nodes |-> [j \in 1..n |->
                            [index |-> j - 1, x0 |-> x0(j - 1),
                             x1 |-> x0(j - 1) + nodeWidth,
                             id |-> data.nodes[j].id]],
              links |-> [i \in 1..m |->
                            [index |-> i - 1,
                             source |-> data.links[i].source,
                             target |-> data.links[i].target,
                             width |-> IF data.links[i].value = NaN THEN NaN
                                       ELSE data.links[i].value * ky]]]

\* d.x0 < width / 2: the test every page uses for "theme (left) node"
IsLeftSide(d, width) == 2 * d.x0 < width

\* label.x < width / 2 and label.x >= width / 2 on a layout record: the
\* record has x0 and x1 but no x, and a comparison with undefined is false
FieldLess(d, name, width) == name \in DOMAIN d /\ 2 * d[name] < width

FieldAtLeast(d, name, width) == name \in DOMAIN d /\ 2 * d[name] >= width

-----------------------------------------------------------------------------
(* The drawn elements.  An element is its bound datum d (a layout record) *)
(* and the style it shows: the opacity in effect (the style property when *)
(* set, else the attribute, else 1) and, for a link, its stroke width.    *)

\* selection.filter(keep).style("opacity", v)
SetOpacity(sel, keep(_), v) ==
    [i \in 1..Len(sel) |->
        IF keep(sel[i].d) THEN [sel[i] EXCEPT !.opacity = v] ELSE sel[i]]

\* selection.filter(keep).style("opacity", v).style("stroke-width", max(lo, width + add))
SetOpacityAndStroke(sel, keep(_), v, lo, add) ==
    [i \in 1..Len(sel) |->
        IF keep(sel[i].d)
        THEN [sel[i] EXCEPT !.opacity = v,
                            !.strokeWidth = StrokeWidth(lo, add, sel[i].d.width)]
        ELSE sel[i]]

Everything(d) == TRUE

\* the path elements: test2 l.199-211, test4 l.249-263, part_000 l.191-204
CreateLinks(cfg, result) ==
    [i \in 1..Len(result.links) |->
        [d |-> result.links[i], opacity |-> cfg.linkOpacity,
         strokeWidth |-> StrokeWidth(cfg.strokeMin, cfg.strokeAdd, result.links[i].width)]]

\* the rect elements: no opacity is set on them
CreateNodes(result) ==
    [i \in 1..Len(result.nodes) |-> [d |-> result.nodes[i], opacity |-> 10]]

\* text elements bound to the given layout nodes
CreateLabelsFor(nodes) ==
    [i \in 1..Len(nodes) |-> [d |-> nodes[i], opacity |-> 10]]

\* test4 l.284-343: theme labels on the left nodes, year and title labels
\* on the right nodes
Test4_createLabels(result, width) ==
    LET left(d) == IsLeftSide(d, width)
        right(d) == ~IsLeftSide(d, width)
    IN  [themeLabels |-> CreateLabelsFor(SelectSeq(result.nodes, left)),
         yearLabels |-> CreateLabelsFor(SelectSeq(result.nodes, right)),
         titleLabels |-> CreateLabelsFor(SelectSeq(result.nodes, right))]

\* part_000 l.242-257: one value label per link
Part_drawFlowLabels(result) ==
    [i \in 1..Len(result.links) |-> [d |-> result.links[i], opacity |-> 10]]

\* mutant of CreateChartElements: the container was not cleared, the
\* elements of the draw before stay in it with their listeners
CreateChartElementsOverOld(v, gen, result, width) ==
    IF dom # Null /\ dom.ok THEN dom
    ELSE [gen |-> gen, width |-> width, ok |-> TRUE, result |-> result,
          links |-> CreateLinks(Config(v), result),
          nodes |-> CreateNodes(result),
          labels |-> IF v = "test4" THEN Test4_createLabels(result, width)
                     ELSE CreateLabelsFor(result.nodes),
          flowLabels |-> IF Config(v).flowLabels THEN Part_drawFlowLabels(result)
                         ELSE << >>]

\* what the container holds once a draw has run to its end
CreateChartElements(v, gen, result, width) ==
    [gen |-> gen, width |-> width, ok |-> TRUE, result |-> result,
     links |-> CreateLinks(Config(v), result),
     nodes |-> CreateNodes(result),
     labels |-> IF v = "test4" THEN Test4_createLabels(result, width)
                ELSE CreateLabelsFor(result.nodes),
     flowLabels |-> IF Config(v).flowLabels THEN Part_drawFlowLabels(result)
                    ELSE << >>]

\* what the container holds when the layout threw: the new, empty svg
EmptyChart(gen, width) ==
    [gen |-> gen, width |-> width, ok |-> FALSE, result |-> Null,
     links |-> << >>, nodes |-> << >>, labels |-> << >>, flowLabels |-> << >>]

\* createTooltip: one more hidden div at the end of document.body
CreateTooltip(tips, gen) == Append(tips, [gen |-> gen, visible |-> FALSE])

\* mutant of CreateSankeyDiagram: the container reference is not tested
CreateSankeyDiagramNoGuard(v, view, refs, data, by, cw, ky) ==
    IF data = Null THEN [view |-> view, threw |-> FALSE]
    ELSE
        LET cfg == Config(v)
            width == Max(cw - cfg.marginLR, cfg.minWidth)
            gen == view.draws + 1
            result == SankeyLayout(data, width, cfg.nodeWidth, ky)
            call == [by |-> by, data |-> data, loading |-> refs.loading,
                     stored |-> refs.currentData]
            calls == IF view.draws = draws THEN << call >>
                     ELSE Append(view.lastDraw, call)
        IN  IF result.threw
            THEN [view |-> [dom |-> EmptyChart(gen, width), body |-> view.body,
                            hover |-> Null, draws |-> gen, pairs |-> 0,
                            lastDraw |-> calls],
                  threw |-> TRUE]
            ELSE [view |-> [dom |-> CreateChartElements(v, gen, result, width),
                            body |-> IF cfg.tooltip
                                     THEN CreateTooltip(view.body, gen)
                                     ELSE view.body,
                            hover |-> Null, draws |-> gen, pairs |-> 0,
                            lastDraw |-> calls],
                  threw |-> FALSE]

\* createSankeyDiagram(data), called by `by` while the refs hold `refs`, on
\* the view `view`; cw is the container's width, ky the layout's scale.
\* Gives the view afterwards and whether the call threw.  The call is
\* recorded after the earlier calls of the same handler, if any.
CreateSankeyDiagram(v, view, refs, data, by, cw, ky) ==
    IF data = Null \/ ~refs.container THEN [view |-> view, threw |-> FALSE]
    ELSE
        LET cfg == Config(v)
            width == Max(cw - cfg.marginLR, cfg.minWidth)
            gen == view.draws + 1
            result == SankeyLayout(data, width, cfg.nodeWidth, ky)
            call == [by |-> by, data |-> data, loading |-> refs.loading,
                     stored |-> refs.currentData]
            calls == IF view.draws = draws THEN << call >>
                     ELSE Append(view.lastDraw, call)
        IN  IF result.threw
            THEN [view |-> [dom |-> EmptyChart(gen, width), body |-> view.body,
                            hover |-> Null, draws |-> gen, pairs |-> 0,
                            lastDraw |-> calls],
                  threw |-> TRUE]
            ELSE [view |-> [dom |-> CreateChartElements(v, gen, result, width),
                            body |-> IF cfg.tooltip
                                     THEN CreateTooltip(view.body, gen)
                                     ELSE view.body,
                            hover |-> Null, draws |-> gen, pairs |-> 0,
                            lastDraw |-> calls],
                  threw |-> FALSE]

-----------------------------------------------------------------------------
(* Hover handlers *)

\* test2 l.318-338
Test2_highlightThemeFlows(themeIndex, d) ==
    LET width == d.width
        fromTheme(link) == link.source = themeIndex
        otherTheme(node) == IsLeftSide(node, width) /\ node.index # themeIndex
        yearNode(node) == ~IsLeftSide(node, width)
        otherLabel(label) == FieldLess(label, "x", width) /\ label.index # themeIndex
    IN  [d EXCEPT
            !.links = SetOpacityAndStroke(SetOpacity(d.links, Everything, 1),
                                          fromTheme, 9, 3, 1),
            !.nodes = SetOpacity(SetOpacity(d.nodes, otherTheme, 3), yearNode, 7),
            !.labels = SetOpacity(d.labels, otherLabel, 3)]

\* mutant of Test2_highlightYearFlows: the links are picked by their source
Test2_highlightYearBySource(yearIndex, d) ==
    LET width == d.width
        toYear(link) == link.source = yearIndex
        otherYear(node) == ~IsLeftSide(node, width) /\ node.index # yearIndex
        themeNode(node) == IsLeftSide(node, width)
        otherLabel(label) == FieldAtLeast(label, "x", width) /\ label.index # yearIndex
    IN  [d EXCEPT
            !.links = SetOpacityAndStroke(SetOpacity(d.links, Everything, 1),
                                          toYear, 9, 3, 1),
            !.nodes = SetOpacity(SetOpacity(d.nodes, otherYear, 3), themeNode, 7),
            !.labels = SetOpacity(d.labels, otherLabel, 3)]

\* test2 l.341-361
Test2_highlightYearFlows(yearIndex, d) ==
    LET width == d.width
        toYear(link) == link.target = yearIndex
        otherYear(node) == ~IsLeftSide(node, width) /\ node.index # yearIndex
        themeNode(node) == IsLeftSide(node, width)
        otherLabel(label) == FieldAtLeast(label, "x", width) /\ label.index # yearIndex
    IN  [d EXCEPT
            !.links = SetOpacityAndStroke(SetOpacity(d.links, Everything, 1),
                                          toYear, 9, 3, 1),
            !.nodes = SetOpacity(SetOpacity(d.nodes, otherYear, 3), themeNode, 7),
            !.labels = SetOpacity(d.labels, otherLabel, 3)]

\* mutant of Test2_resetHighlighting: the stroke width is not put back
Test2_resetOpacityOnly(d) ==
    [d EXCEPT
        !.links = SetOpacity(d.links, Everything, 7),
        !.nodes = SetOpacity(d.nodes, Everything, 10),
        !.labels = SetOpacity(d.labels, Everything, 10)]

\* test2 l.364-370
Test2_resetHighlighting(d) ==
    [d EXCEPT
        !.links = SetOpacityAndStroke(d.links, Everything, 7, 2, 0),
        !.nodes = SetOpacity(d.nodes, Everything, 10),
        !.labels = SetOpacity(d.labels, Everything, 10)]

\* test4 l.403-419
Test4_highlightThemeFlows(themeIndex, d) ==
    LET width == d.width
        cfg == Test4_CHART_CONFIG
        fromTheme(link) == link.source = themeIndex
        otherTheme(node) == IsLeftSide(node, width) /\ node.index # themeIndex
        eventNode(node) == ~IsLeftSide(node, width)
        otherLabel(label) == label.index # themeIndex
    IN  [d EXCEPT
            !.links = SetOpacity(SetOpacity(d.links, Everything, cfg.backgroundOpacity),
                                 fromTheme, cfg.nodeOpacityHighlight),
            !.nodes = SetOpacity(SetOpacity(d.nodes, otherTheme, cfg.backgroundOpacity),
                                 eventNode, cfg.backgroundOpacity),
            !.labels.themeLabels =
                SetOpacity(d.labels.themeLabels, otherLabel, cfg.backgroundOpacity)]

\* test4 l.421-438
Test4_highlightEventFlows(eventIndex, d) ==
    LET width == d.width
        cfg == Test4_CHART_CONFIG
        toEvent(link) == link.target = eventIndex
        otherEvent(node) == ~IsLeftSide(node, width) /\ node.index # eventIndex
        themeNode(node) == IsLeftSide(node, width)
        otherLabel(label) == label.index # eventIndex
    IN  [d EXCEPT
            !.links = SetOpacity(SetOpacity(d.links, Everything, cfg.backgroundOpacity),
                                 toEvent, cfg.nodeOpacityHighlight),
            !.nodes = SetOpacity(SetOpacity(d.nodes, otherEvent, cfg.backgroundOpacity),
                                 themeNode, cfg.backgroundOpacity),
            !.labels.yearLabels =
                SetOpacity(d.labels.yearLabels, otherLabel, cfg.backgroundOpacity),
            !.labels.titleLabels =
                SetOpacity(d.labels.titleLabels, otherLabel, cfg.backgroundOpacity)]

\* test4 l.440-451
Test4_resetHighlighting(d) ==
    LET cfg == Test4_CHART_CONFIG
    IN  [d EXCEPT
            !.links = SetOpacity(d.links, Everything, cfg.defaultOpacity),
            !.nodes = SetOpacity(d.nodes, Everything, cfg.defaultOpacity),
            !.labels.themeLabels = SetOpacity(d.labels.themeLabels, Everything, 10),
            !.labels.yearLabels = SetOpacity(d.labels.yearLabels, Everything, 10),
            !.labels.titleLabels = SetOpacity(d.labels.titleLabels, Everything, 10)]

\* flowLabels.filter((label, i) => keep(result.links[i])).style("opacity", v)
SetOpacityByPosition(sel, result, keep(_), v) ==
    [i \in 1..Len(sel) |->
        IF keep(result.links[i]) THEN [sel[i] EXCEPT !.opacity = v] ELSE sel[i]]

\* mutant of Part_highlightThemeFlows: the decade nodes are left as they were
Part_highlightThemeNoDim(themeIndex, d) ==
    LET width == d.width
        fromTheme(link) == link.source = themeIndex
        notFromTheme(link) == link.source # themeIndex
        otherTheme(node) == IsLeftSide(node, width) /\ node.index # themeIndex
        otherLabel(label) == FieldLess(label, "x", width) /\ label.index # themeIndex
    IN  [d EXCEPT
            !.links = SetOpacityAndStroke(SetOpacity(d.links, Everything, 1),
                                          fromTheme, 9, 3, 1),
            !.nodes = SetOpacity(d.nodes, otherTheme, 3),
            !.labels = SetOpacity(d.labels, otherLabel, 3),
            !.flowLabels = SetOpacityByPosition(d.flowLabels, d.result, notFromTheme, 1)]

\* part_000 l.294-309
Part_highlightThemeFlows(themeIndex, d) ==
    LET width == d.width
        fromTheme(link) == link.source = themeIndex
        notFromTheme(link) == link.source # themeIndex
        otherTheme(node) == IsLeftSide(node, width) /\ node.index # themeIndex
        decadeNode(node) == ~IsLeftSide(node, width)
        otherLabel(label) == FieldLess(label, "x", width) /\ label.index # themeIndex
    IN  [d EXCEPT
            !.links = SetOpacityAndStroke(SetOpacity(d.links, Everything, 1),
                                          fromTheme, 9, 3, 1),
            !.nodes = SetOpacity(SetOpacity(d.nodes, otherTheme, 3), decadeNode, 7),
            !.labels = SetOpacity(d.labels, otherLabel, 3),
            !.flowLabels = SetOpacityByPosition(d.flowLabels, d.result, notFromTheme, 1)]

\* part_000 l.311-326
Part_highlightDecadeFlows(decadeIndex, d) ==
    LET width == d.width
        toDecade(link) == link.target = decadeIndex
        notToDecade(link) == link.target # decadeIndex
        otherDecade(node) == ~IsLeftSide(node, width) /\ node.index # decadeIndex
        themeNode(node) == IsLeftSide(node, width)
        otherLabel(label) == FieldAtLeast(label, "x", width) /\ label.index # decadeIndex
    IN  [d EXCEPT
            !.links = SetOpacityAndStroke(SetOpacity(d.links, Everything, 1),
                                          toDecade, 9, 3, 1),
            !.nodes = SetOpacity(SetOpacity(d.nodes, otherDecade, 3), themeNode, 7),
            !.labels = SetOpacity(d.labels, otherLabel, 3),
            !.flowLabels = SetOpacityByPosition(d.flowLabels, d.result, notToDecade, 1)]

\* part_000 l.328-334
Part_resetHighlighting(d) ==
    [d EXCEPT
        !.links = SetOpacityAndStroke(d.links, Everything, 7, 2, 0),
        !.nodes = SetOpacity(d.nodes, Everything, 10),
        !.labels = SetOpacity(d.labels, Everything, 10),
        !.flowLabels = SetOpacity(d.flowLabels, Everything, 10)]

\* the mouseenter listener that addHoverInteractions puts on a node: the
\* theme handler on the left nodes, the year/event/decade handler on the rest
NodeMouseEnter(v, d, node) ==
    IF IsLeftSide(node, d.width)
    THEN IF v = "test2" THEN Test2_highlightThemeFlows(node.index, d)
         ELSE IF v = "test4" THEN Test4_highlightThemeFlows(node.index, d)
         ELSE Part_highlightThemeFlows(node.index, d)
    ELSE IF v = "test2" THEN Test2_highlightYearFlows(node.index, d)
         ELSE IF v = "test4" THEN Test4_highlightEventFlows(node.index, d)
         ELSE Part_highlightDecadeFlows(node.index, d)

\* the mouseleave listener of every node
NodeMouseLeave(v, d) ==
    IF v = "test2" THEN Test2_resetHighlighting(d)
    ELSE IF v = "test4" THEN Test4_resetHighlighting(d)
    ELSE Part_resetHighlighting(d)

\* a link's mouseenter: test2 l.252-258, test4 showTooltip l.357-359
LinkMouseEnter(v, d, i) ==
    IF v = "test2"
    THEN [d EXCEPT !.links[i].opacity = 10,
                   !.links[i].strokeWidth = StrokeWidth(4, 2, d.links[i].d.width)]
    ELSE [d EXCEPT !.links[i].opacity = Test4_CHART_CONFIG.linkOpacityHover]

\* a link's mouseleave: test2 l.275-279, test4 l.350-351
LinkMouseLeave(v, d, i) ==
    IF v = "test2"
    THEN [d EXCEPT !.links[i].opacity = 7,
                   !.links[i].strokeWidth = StrokeWidth(2, 0, d.links[i].d.width)]
    ELSE [d EXCEPT !.links[i].opacity = Test4_CHART_CONFIG.defaultOpacity]

\* tooltip.style("visibility", ...) on the tooltip div made by draw gen
SetTooltip(tips, gen, visible) ==
    [i \in 1..Len(tips) |->
        IF tips[i].gen = gen THEN [tips[i] EXCEPT !.visible = visible] ELSE tips[i]]

-----------------------------------------------------------------------------
(* Inputs *)

ThemeStrings ==
    { << "A" >>, << "B" >>, << "A", ";", "B" >>, << " ", "A" >>,
      << "B", ";", " ", "A" >>, << "A", ";" >>, << "A", ";", "A" >>, << >> }

YearStrings == { << "1" >>, << "2" >>, << "1", "0" >>, << "x" >> }

\* rows of the theme/year files read by test2 and test4
ThemeRows ==
    [Theme : ThemeStrings, Year : YearStrings,
     Title : { << "T" >> }, Description : { << "D" >> }]

NodeRow(id, x) ==
    [type |-> << "n", "o", "d", "e" >>, id |-> id, name |-> << "N" >> \o id,
     x_position |-> x, source |-> << >>, target |-> << >>, value |-> << >>,
     description |-> << >>]

LinkRow(s, t, v) ==
    [type |-> << "l", "i", "n", "k" >>, id |-> << >>, name |-> << >>,
     x_position |-> << >>, source |-> s, target |-> t, value |-> v,
     description |-> << >>]

\* rows of the node/link file read by part_000
PartRows ==
    { NodeRow(<< "0" >>, << "0" >>), NodeRow(<< "1" >>, << "1" >>),
      NodeRow(<< "1" >>, << "0" >>), NodeRow(<< "5" >>, << "1" >>) }
    \cup { LinkRow(s, t, << "5" >>) :
             s \in { << "0" >>, << "1" >> }, t \in { << "0" >>, << "1" >>, << "2" >> } }
    \cup { LinkRow(<< "0" >>, << "1" >>, v) : v \in { << "x" >>, << "-", "3" >> } }
    \cup { [type |-> << "x" >>, id |-> << >>, name |-> << >>, x_position |-> << >>,
            source |-> << >>, target |-> << >>, value |-> << >>,
            description |-> << >>] }

Variants == { "test2", "test4", "part000" }

InputsT(v) ==
    IF v = "part000" THEN SeqsOf(PartRows, 1, MaxRows + 1)
    ELSE SeqsOf(ThemeRows, 1, MaxRows)

-----------------------------------------------------------------------------
(* SpecT: the transformers applied, as loadData applies them, to every input *)

UiIdle ==
    /\ phase = "created" /\ fetch = "idle" /\ cause = "none"
    /\ loading = TRUE /\ error = Null /\ currentData = Null
    /\ container = FALSE /\ observer = FALSE
    /\ dom = Null /\ body = << >> /\ hover = Null
    /\ draws = 0 /\ pairs = 0 /\ lastDraw = << >> /\ event = "none"

InitT ==
    /\ variant \in Variants
    /\ csv \in InputsT(variant)
    /\ out = Null
    /\ UiIdle

\* test2 loadData, lines 67-75
RunTest2 ==
    /\ variant = "test2" /\ out = Null
    /\ out' = Test2_transformCSVToSankey(csv, Test2_themes(csv), Test2_years(csv))
    /\ UNCHANGED << variant, csv, uiVars >>

\* test4 loadData, lines 94-101
RunTest4 ==
    /\ variant = "test4" /\ out = Null
    /\ out' \in Test4_transformCSVToSankey(csv, Test4_themes(csv))
    /\ UNCHANGED << variant, csv, uiVars >>

\* part_000 loadData, lines 54-57
RunPart ==
    /\ variant = "part000" /\ out = Null
    /\ LET parsed == Part_parseCSVData(csv)
       IN  /\ Len(parsed.nodes) > 0 /\ Len(parsed.links) > 0
           /\ out' = Part_transformData(parsed.nodes, parsed.links)
    /\ UNCHANGED << variant, csv, uiVars >>

NextT == RunTest2 \/ RunTest4 \/ RunPart

SpecT == InitT /\ [][NextT]_vars

-----------------------------------------------------------------------------
(* SpecO: the transformers applied, as loadData applies them, to files with *)
(* and without the optional description column.  d3.csv gives a row the    *)
(* properties of the header: a cell left empty is the empty string, a      *)
(* column that the header does not have is undefined.                      *)

\* the row of a file whose header has no column `name`
Without(row, name) == [f \in DOMAIN row \ { name } |-> row[f]]

OptionalThemeRows ==
    [Theme : { << "A" >>, << "A", ";", "B" >> }, Year : { << "1" >>, << "2" >> },
     Title : { << "T" >> }, Description : { << "D" >>, << >> }]

OptionalPartRows ==
    { NodeRow(<< "0" >>, << "0" >>), NodeRow(<< "1" >>, << "1" >>),
      LinkRow(<< "0" >>, << "1" >>, << "5" >>),
      [LinkRow(<< "0" >>, << "1" >>, << "5" >>) EXCEPT !.description = << "D" >>] }

InputsO(v) ==
    LET rows == IF v = "part000" THEN OptionalPartRows ELSE OptionalThemeRows
        name == IF v = "part000" THEN "description" ELSE "Description"
        files == SeqsOf(rows, 1, IF v = "part000" THEN MaxRows + 1 ELSE MaxRows)
    IN  files \cup { [i \in 1..Len(f) |-> Without(f[i], name)] : f \in files }

InitO ==
    /\ variant \in Variants
    /\ csv \in InputsO(variant)
    /\ out = Null
    /\ UiIdle

SpecO == InitO /\ [][NextT]_vars

-----------------------------------------------------------------------------
(* SpecP: transformCSVToSankey of test2 and test4 called as functions of    *)
(* their parameters, with any category lists and not only the derived ones *)

\* the lists without repeats, of any length, over the values of S
ListsOf(S) ==
    { l \in SeqsOf(S, 0, Cardinality(S)) :
        \A i, j \in 1..Len(l) : l[i] = l[j] => i = j }

ThemeLists == ListsOf({ << "A" >>, << "B" >> })

YearLists == ListsOf({ << "1" >>, << "2" >> })

InitP ==
    /\ variant \in { "test2", "test4" }
    /\ csv \in InputsT(variant)
    /\ out = Null
    /\ UiIdle

\* test2 l.93: transformCSVToSankey(csvData, themes, years)
CallTest2 ==
    /\ variant = "test2" /\ out = Null
    /\ \E themes \in ThemeLists, years \in YearLists :
          out' = Test2_transformCSVToSankey(csv, themes, years)
    /\ UNCHANGED << variant, csv, uiVars >>

\* test4 l.118: transformCSVToSankey(csvData, themes)
CallTest4 ==
    /\ variant = "test4" /\ out = Null
    /\ \E themes \in ThemeLists :
          out' \in Test4_transformCSVToSankey(csv, themes)
    /\ UNCHANGED << variant, csv, uiVars >>

NextP == CallTest2 \/ CallTest4

SpecP == InitP /\ [][NextP]_vars

-----------------------------------------------------------------------------
(* Spec: one component from setup to teardown *)

\* what d3.csv can resolve with in the component's life
UiThemeRows ==
    [Theme : { << "A" >>, << "B" >>, << "A", ";", "B" >> },
     Year : { << "1" >>, << "2" >> },
     Title : { << "T" >> }, Description : { << "D" >> }]

UiPartRows ==
    { NodeRow(<< "0" >>, << "0" >>), NodeRow(<< "1" >>, << "1" >>),
      NodeRow(<< "5" >>, << "1" >>),
      LinkRow(<< "0" >>, << "1" >>, << "5" >>),
      LinkRow(<< "1" >>, << "0" >>, << "5" >>),
      LinkRow(<< "0" >>, << "2" >>, << "5" >>),
      LinkRow(<< "0" >>, << "1" >>, << "-", "3" >>) }

UiInputs(v) ==
    IF v = "part000" THEN SeqsOf(UiPartRows, 0, MaxRows + 1)
    ELSE SeqsOf(UiThemeRows, 0, MaxRows)

\* getBoundingClientRect().width of the container
ContainerWidths == { 200, 1000 }

Message(text) == [message |-> text]

View == [dom |-> dom, body |-> body, hover |-> hover, draws |-> draws,
         pairs |-> pairs, lastDraw |-> lastDraw]

SetView(view) ==
    /\ dom' = view.dom /\ body' = view.body /\ hover' = view.hover
    /\ draws' = view.draws /\ pairs' = view.pairs /\ lastDraw' = view.lastDraw

Init ==
    /\ variant \in Variants
    /\ csv = << >> /\ out = Null
    /\ UiIdle

\* onMounted: loadData() runs to its await, then setupResizeObserver()
Mount ==
    /\ phase = "created"
    /\ phase' = "mounted"
    /\ container' = TRUE
    /\ loading' = TRUE /\ error' = Null
    /\ fetch' = "pending"
    /\ observer' = container'
    /\ event' = "mount"
    /\ UNCHANGED << variant, csv, out, cause, currentData, dom, body, hover,
                    draws, pairs, lastDraw >>

\* mutant of CatchShowError: loading is left true
CatchKeepLoading(why, text) ==
    /\ error' = Message(text)
    /\ loading' = loading
    /\ cause' = why
    /\ UNCHANGED << currentData, dom, body, hover, draws, pairs, lastDraw >>

\* the catch block of test2 l.84-89 and test4 l.109-114
CatchShowError(why, text) ==
    /\ error' = Message(text)
    /\ loading' = FALSE
    /\ cause' = why
    /\ UNCHANGED << currentData, dom, body, hover, draws, pairs, lastDraw >>

\* mutant of StoreAndDraw: the draw is issued before the refs are set
StoreAndDrawEarly(sankeyData, cw, ky) ==
    LET refs == [loading |-> loading, currentData |-> currentData, container |-> container]
        drawn == CreateSankeyDiagram(variant, View, refs, sankeyData, "load", cw, ky)
    IN  /\ loading' = FALSE
        /\ currentData' = sankeyData
        /\ SetView(drawn.view)
        /\ IF drawn.threw
           THEN error' = Message("layout error") /\ cause' = "drawthrew"
           ELSE error' = error /\ cause' = "ok"

\* test2 l.80-82, test4 l.105-107: store, draw; a throw of the draw is
\* caught by the same catch block
StoreAndDraw(sankeyData, cw, ky) ==
    LET refs == [loading |-> FALSE, currentData |-> sankeyData, container |-> container]
        drawn == CreateSankeyDiagram(variant, View, refs, sankeyData, "load", cw, ky)
    IN  /\ loading' = FALSE
        /\ currentData' = sankeyData
        /\ SetView(drawn.view)
        /\ IF drawn.threw
           THEN error' = Message("layout error") /\ cause' = "drawthrew"
           ELSE error' = error /\ cause' = "ok"

\* test2 loadData after the await, l.61-89
Test2_loadDataResolved(csvData, cw, ky) ==
    IF Len(csvData) = 0 THEN CatchShowError("empty", "CSV data was empty")
    ELSE StoreAndDraw(Test2_transformCSVToSankey(csvData, Test2_themes(csvData),
                                                 Test2_years(csvData)), cw, ky)

\* test4 loadData after the await, l.88-114
Test4_loadDataResolved(csvData, cw, ky) ==
    IF Len(csvData) = 0 THEN CatchShowError("empty", "CSV data was empty")
    ELSE \E sankeyData \in Test4_transformCSVToSankey(csvData, Test4_themes(csvData)) :
             StoreAndDraw(sankeyData, cw, ky)

\* mutant of Part_catch: a Dataset the try block stored is kept
Part_catchKeepStored(why, text, view, stored, cw, ky) ==
    LET kept == IF stored = Null THEN FallbackData ELSE stored
        refs == [loading |-> FALSE, currentData |-> kept, container |-> container]
        drawn == CreateSankeyDiagram(variant, view, refs, FallbackData, "load", cw, ky)
    IN  /\ error' = Message(text)
        /\ cause' = why
        /\ loading' = FALSE
        /\ currentData' = kept
        /\ SetView(drawn.view)

\* part_000 l.67-71 and useFallbackData l.129-131, entered with the view and
\* the refs as the try block left them
Part_catch(why, text, view, stored, cw, ky) ==
    LET refs == [loading |-> FALSE, currentData |-> FallbackData, container |-> container]
        drawn == CreateSankeyDiagram(variant, view, refs, FallbackData, "load", cw, ky)
    IN  /\ error' = Message(text)
        /\ cause' = why
        /\ loading' = FALSE
        /\ currentData' = FallbackData
        /\ SetView(drawn.view)

\* mutant of Part_loadDataResolved: rows without node rows or link rows end
\* in the message alone, no fallback
Part_loadDataNoFallback(csvData, cw, ky) ==
    LET parsed == Part_parseCSVData(csvData)
    IN  IF Len(csvData) > 0 /\ Len(parsed.nodes) > 0 /\ Len(parsed.links) > 0
        THEN LET sankeyData == Part_transformData(parsed.nodes, parsed.links)
                 refs == [loading |-> FALSE, currentData |-> sankeyData,
                          container |-> container]
                 drawn == CreateSankeyDiagram(variant, View, refs, sankeyData,
                                              "load", cw, ky)
             IN  IF drawn.threw
                 THEN Part_catch("drawthrew", "layout error", drawn.view,
                                 sankeyData, cw, ky)
                 ELSE /\ loading' = FALSE
                      /\ currentData' = sankeyData
                      /\ SetView(drawn.view)
                      /\ cause' = "ok"
                      /\ error' = error
        ELSE CatchShowError(IF Len(csvData) = 0 THEN "empty" ELSE "invalid",
                            "Invalid or empty CSV data")

\* part_000 loadData after the await, l.53-71
Part_loadDataResolved(csvData, cw, ky) ==
    LET parsed == Part_parseCSVData(csvData)
    IN  IF Len(csvData) > 0 /\ Len(parsed.nodes) > 0 /\ Len(parsed.links) > 0
        THEN LET sankeyData == Part_transformData(parsed.nodes, parsed.links)
                 refs == [loading |-> FALSE, currentData |-> sankeyData,
                          container |-> container]
                 drawn == CreateSankeyDiagram(variant, View, refs, sankeyData,
                                              "load", cw, ky)
             IN  IF drawn.threw
                 THEN Part_catch("drawthrew", "layout error", drawn.view,
                                 sankeyData, cw, ky)
                 ELSE /\ loading' = FALSE
                      /\ currentData' = sankeyData
                      /\ SetView(drawn.view)
                      /\ cause' = "ok"
                      /\ error' = error
        ELSE Part_catch(IF Len(csvData) = 0 THEN "empty" ELSE "invalid",
                        "Invalid or empty CSV data", View, currentData, cw, ky)

\* the d3.csv promise resolves with rows; loadData runs to its end
FetchResolve ==
    /\ fetch = "pending"
    /\ fetch' = "settled"
    /\ event' = "resolve"
    /\ \E csvData \in UiInputs(variant), cw \in ContainerWidths, ky \in 1..MaxKy :
          IF variant = "test2" THEN Test2_loadDataResolved(csvData, cw, ky)
          ELSE IF variant = "test4" THEN Test4_loadDataResolved(csvData, cw, ky)
          ELSE Part_loadDataResolved(csvData, cw, ky)
    /\ UNCHANGED << variant, csv, out, phase, container, observer >>

\* the d3.csv promise rejects (network, HTTP status, parse); loadData runs
\* its catch block
FetchReject ==
    /\ fetch = "pending"
    /\ fetch' = "settled"
    /\ event' = "reject"
    /\ \E cw \in ContainerWidths, ky \in 1..MaxKy :
          IF variant = "part000"
          THEN Part_catch("rejected", "fetch failed", View, currentData, cw, ky)
          ELSE CatchShowError("rejected", "fetch failed")
    /\ UNCHANGED << variant, csv, out, phase, container, observer >>

\* mutant of Resize: a resize signal after a load that stored nothing starts
\* the load again
ResizeRetry ==
    /\ observer
    /\ draws < MaxDraws
    /\ event' = "resize"
    /\ IF container /\ ~loading /\ currentData # Null
       THEN /\ \E cw \in ContainerWidths, ky \in 1..MaxKy :
                  LET refs == [loading |-> loading, currentData |-> currentData,
                               container |-> container]
                  IN  SetView(CreateSankeyDiagram(variant, View, refs, currentData,
                                                  "resize", cw, ky).view)
            /\ UNCHANGED << fetch, loading, error >>
       ELSE /\ UNCHANGED << dom, body, hover, draws, pairs, lastDraw >>
            /\ IF fetch = "settled"
               THEN fetch' = "pending" /\ loading' = TRUE /\ error' = Null
               ELSE UNCHANGED << fetch, loading, error >>
    /\ UNCHANGED << variant, csv, out, phase, cause, currentData, container,
                    observer >>

\* the ResizeObserver callback: test2 l.43-47, test4 l.72-76, part_000 l.37-41
Resize ==
    /\ observer
    /\ draws < MaxDraws
    /\ event' = "resize"
    /\ IF container /\ ~loading /\ currentData # Null
       THEN \E cw \in ContainerWidths, ky \in 1..MaxKy :
               LET refs == [loading |-> loading, currentData |-> currentData,
                            container |-> container]
               IN  SetView(CreateSankeyDiagram(variant, View, refs, currentData,
                                               "resize", cw, ky).view)
       ELSE UNCHANGED << dom, body, hover, draws, pairs, lastDraw >>
    /\ UNCHANGED << variant, csv, out, phase, fetch, cause, loading, error,
                    currentData, container, observer >>

\* onUnmounted; the view is removed and the template ref becomes null
Unmount ==
    /\ phase = "mounted"
    /\ phase' = "unmounted"
    /\ observer' = FALSE
    /\ container' = FALSE
    /\ dom' = Null /\ hover' = Null /\ pairs' = 0
    /\ event' = "unmount"
    /\ UNCHANGED << variant, csv, out, fetch, cause, loading, error, currentData,
                    body, draws, lastDraw >>

Drawn == dom # Null /\ dom.ok

\* the pointer enters node i of the drawn chart
NodeEnter ==
    /\ Drawn /\ hover = Null /\ pairs < MaxPairs
    /\ \E i \in 1..Len(dom.nodes) :
          /\ dom' = NodeMouseEnter(variant, dom, dom.nodes[i].d)
          /\ hover' = [kind |-> "node", at |-> i]
    /\ event' = "nodeenter"
    /\ UNCHANGED << variant, csv, out, phase, fetch, cause, loading, error,
                    currentData, container, observer, body, draws, pairs, lastDraw >>

\* the pointer leaves the node it was on
NodeLeave ==
    /\ Drawn /\ hover # Null /\ hover.kind = "node"
    /\ dom' = NodeMouseLeave(variant, dom)
    /\ hover' = Null
    /\ pairs' = pairs + 1
    /\ event' = "nodeleave"
    /\ UNCHANGED << variant, csv, out, phase, fetch, cause, loading, error,
                    currentData, container, observer, body, draws, lastDraw >>

\* the pointer enters link i (test2 and test4 put listeners on links)
LinkEnter ==
    /\ Drawn /\ hover = Null /\ Config(variant).tooltip
    /\ \E i \in 1..Len(dom.links) :
          /\ dom' = LinkMouseEnter(variant, dom, i)
          /\ hover' = [kind |-> "link", at |-> i]
    /\ body' = SetTooltip(body, dom.gen, TRUE)
    /\ event' = "linkenter"
    /\ UNCHANGED << variant, csv, out, phase, fetch, cause, loading, error,
                    currentData, container, observer, draws, pairs, lastDraw >>

\* the pointer leaves the link it was on
LinkLeave ==
    /\ Drawn /\ hover # Null /\ hover.kind = "link"
    /\ dom' = LinkMouseLeave(variant, dom, hover.at)
    /\ body' = SetTooltip(body, dom.gen, FALSE)
    /\ hover' = Null
    /\ event' = "linkleave"
    /\ UNCHANGED << variant, csv, out, phase, fetch, cause, loading, error,
                    currentData, container, observer, draws, pairs, lastDraw >>

Next ==
    \/ Mount
    \/ FetchResolve
    \/ FetchReject
    \/ Resize
    \/ Unmount
    \/ NodeEnter
    \/ NodeLeave
    \/ LinkEnter
    \/ LinkLeave

Spec == Init /\ [][Next]_vars

-----------------------------------------------------------------------------
(* SpecL: the component when the template ref may be bound late, the case *)
(* that the guards of setupResizeObserver and createSankeyDiagram test for *)

\* onMounted while chartContainer.value is still null: loadData() runs to
\* its await, setupResizeObserver() finds no container and makes no observer
MountDetached ==
    /\ phase = "created"
    /\ phase' = "mounted"
    /\ container' = FALSE
    /\ loading' = TRUE /\ error' = Null
    /\ fetch' = "pending"
    /\ observer' = container'
    /\ event' = "mount"
    /\ UNCHANGED << variant, csv, out, cause, currentData, dom, body, hover,
                    draws, pairs, lastDraw >>

\* the display surface is attached: chartContainer.value becomes the element
Attach ==
    /\ phase = "mounted" /\ ~container
    /\ container' = TRUE
    /\ event' = "attach"
    /\ UNCHANGED << variant, csv, out, phase, fetch, cause, loading, error,
                    currentData, observer, dom, body, hover, draws, pairs,
                    lastDraw >>

NextL == Next \/ MountDetached \/ Attach

SpecL == Init /\ [][NextL]_vars

-----------------------------------------------------------------------------
(* Claims about the transformers (SpecT) *)

NodeIds(data) == { data.nodes[i].id : i \in 1..Len(data.nodes) }

NodesWithId(data, id) ==
    { data.nodes[i] : i \in { j \in 1..Len(data.nodes) : data.nodes[j].id = id } }

\* C1: for every input of at least one row, the Dataset that test2 and test4
\* build from the category sets loadData derives has at least 2 nodes and at
\* least 1 link, and every link's source and target is the id of a node.
C1_WellFormed ==
    (variant \in { "test2", "test4" } /\ out # Null) =>
        /\ Len(out.nodes) >= 2
        /\ Len(out.links) >= 1
        /\ \A i \in 1..Len(out.links) :
              /\ out.links[i].source \in NodeIds(out)
              /\ out.links[i].target \in NodeIds(out)

\* a two-row test4 input whose rows fan out to three links
C1_Witness ==
    /\ variant = "test4" /\ out # Null
    /\ Len(csv) = 2 /\ Len(out.links) = 3

\* the primary values of the rows, in row order, repeats included
PrimaryValues ==
    IF variant = "test2" THEN Column(csv, "Theme")
    ELSE Flatten([i \in 1..Len(csv) |-> SplitThemes(csv[i].Theme)])

NodesOfType(data, types) ==
    { data.nodes[i] : i \in { j \in 1..Len(data.nodes) : data.nodes[j].type \in types } }

\* ids ascend as first occurrences in raw do
FirstSeenOrder(nodes, raw) ==
    /\ \A a \in nodes : a.name \in Range(raw)
    /\ \A a, b \in nodes : (a.id < b.id) = (IndexOf(raw, a.name) < IndexOf(raw, b.name))

\* C3: with k primary values and m secondary entries the primary nodes have
\* exactly the ids 0..k-1 and the secondary nodes exactly the ids k..k+m-1,
\* none repeated or skipped; primary ids follow the first-seen order of the
\* theme values, secondary ids the first-seen order of the years (test2) or
\* the order of the sorted rows (test4).
C3_IdRanges ==
    (variant \in { "test2", "test4" } /\ out # Null) =>
        LET k == Cardinality(Range(PrimaryValues))
            m == IF variant = "test2"
                 THEN Cardinality(Range(Column(csv, "Year"))) ELSE Len(csv)
            prim == NodesOfType(out, { "theme" })
            sec == NodesOfType(out, { "year", "event" })
        IN  /\ Len(out.nodes) = k + m
            /\ Cardinality(prim) = k /\ { n.id : n \in prim } = 0..(k - 1)
            /\ Cardinality(sec) = m /\ { n.id : n \in sec } = k..(k + m - 1)
            /\ FirstSeenOrder(prim, PrimaryValues)
            /\ variant = "test2" => FirstSeenOrder(sec, Column(csv, "Year"))
            /\ variant = "test4" =>
                  \E sorted \in Test4_sortOutcomes(csv) :
                      \A n \in sec :
                          n.name = sorted[n.id - k + 1].Year \o << " ", "-", " " >>
                                       \o sorted[n.id - k + 1].Title

\* test4 rows given out of year order: two themes, then the events re-ordered
C3_Witness ==
    /\ variant = "test4" /\ out # Null /\ Len(csv) = 2
    /\ ParseInt(csv[1].Year) = 10 /\ ParseInt(csv[2].Year) = 2
    /\ Cardinality(NodesOfType(out, { "theme" })) = 2
    /\ out.nodes[3].year = 2 /\ out.nodes[4].year = 10

-----------------------------------------------------------------------------
(* Claims about the component (Spec) *)

\* C2: whenever currentData is non-null, each of its links has a source that
\* is the id of a primary (theme) node and a target that is the id of a
\* secondary (year, event, decade) node, for Datasets built from CSV rows
\* and for the fallback Dataset, in every page.
C2_LinksPrimaryToSecondary ==
    currentData # Null =>
        \A i \in 1..Len(currentData.links) :
            /\ \E n \in NodesWithId(currentData, currentData.links[i].source) :
                   n.type = "theme"
            /\ \E n \in NodesWithId(currentData, currentData.links[i].target) :
                   n.type \in { "year", "event", "decade" }

-----------------------------------------------------------------------------
(* The highlight machine: Idle is no element hovered, Focused(n) is node n *)
(* hovered.                                                                *)

Idle == Drawn /\ hover = Null

Focused == Drawn /\ hover # Null /\ hover.kind = "node"

FocusNode == dom.nodes[hover.at].d

FocusIsPrimary == IsLeftSide(FocusNode, dom.width)

\* the links the focus is keyed on: from a primary node, to a secondary node
KeyedOnFocus(link) ==
    IF FocusIsPrimary THEN link.source = FocusNode.index
    ELSE link.target = FocusNode.index

\* the documented baseline of each page
BaselineLinkOpacity == IF variant = "test4" THEN 5 ELSE 7

BaselineNodeOpacity == IF variant = "test4" THEN 5 ELSE 10

BaselineStroke(width) ==
    IF variant = "test4" THEN Max(4, width + 2) ELSE Max(2, width)

AllLabels ==
    IF variant = "test4"
    THEN dom.labels.themeLabels \o dom.labels.yearLabels \o dom.labels.titleLabels
    ELSE dom.labels

\* C4: after any sequence of enter/leave pairs on nodes, whenever the machine
\* is back in Idle every link, node, label and flow label has the one fixed
\* opacity of its kind and every link the one fixed stroke-width rule,
\* whichever node was focused last and however many pairs went before.
C4_IdleIsBaseline ==
    (Idle /\ pairs >= 1) =>
        /\ \A i \in 1..Len(dom.links) :
              /\ dom.links[i].opacity = BaselineLinkOpacity
              /\ dom.links[i].strokeWidth = BaselineStroke(dom.links[i].d.width)
        /\ \A i \in 1..Len(dom.nodes) : dom.nodes[i].opacity = BaselineNodeOpacity
        /\ \A i \in 1..Len(AllLabels) : AllLabels[i].opacity = 10
        /\ \A i \in 1..Len(dom.flowLabels) : dom.flowLabels[i].opacity = 10

\* back in Idle after a second pair, on a chart with a wide link
C4_Witness ==
    /\ Idle /\ pairs = 2 /\ event = "nodeleave"
    /\ \E i \in 1..Len(dom.links) : dom.links[i].d.width > 2

\* C5 as stated: on entering Focused(n), in every page, exactly the links
\* keyed on n (source n for a primary n, target n for a secondary n) are at
\* full emphasis, opacity above the baseline and stroke thicker than the
\* baseline, and every other link is at the low opacity.
C5_Original ==
    Focused =>
        \A i \in 1..Len(dom.links) :
            IF KeyedOnFocus(dom.links[i].d)
            THEN /\ dom.links[i].opacity > BaselineLinkOpacity
                 /\ dom.links[i].strokeWidth > BaselineStroke(dom.links[i].d.width)
            ELSE dom.links[i].opacity = 1

\* C5 amended: on entering Focused(n), exactly the links keyed on n are
\* emphasised and every other link is at the low opacity 0.1; the emphasis
\* is opacity 0.9, above the baseline, with a thicker stroke in test2 and
\* part_000 and with the stroke width left as drawn in test4.
C5_Emphasis ==
    Focused =>
        \A i \in 1..Len(dom.links) :
            IF KeyedOnFocus(dom.links[i].d)
            THEN /\ dom.links[i].opacity = 9
                 /\ dom.links[i].opacity > BaselineLinkOpacity
                 /\ IF variant = "test4"
                    THEN dom.links[i].strokeWidth = BaselineStroke(dom.links[i].d.width)
                    ELSE dom.links[i].strokeWidth > BaselineStroke(dom.links[i].d.width)
            ELSE dom.links[i].opacity = 1

\* a secondary node in focus that has a link keyed on it and one that is not
C5_Witness ==
    /\ Focused /\ ~FocusIsPrimary
    /\ \E i, j \in 1..Len(dom.links) :
          KeyedOnFocus(dom.links[i].d) /\ ~KeyedOnFocus(dom.links[j].d)

OtherNodes(sameSide) ==
    { i \in 1..Len(dom.nodes) :
        /\ dom.nodes[i].d.index # FocusNode.index
        /\ (IsLeftSide(dom.nodes[i].d, dom.width) = FocusIsPrimary) = sameSide }

\* C6 as stated: on entering Focused(n), in every page, every other node of
\* n's category is at the low opacity and every node of the other category
\* is at a middle opacity strictly between the low and the full opacity.
C6_Original ==
    Focused =>
        LET low == IF variant = "test4" THEN 1 ELSE 3
        IN  /\ \A i \in OtherNodes(TRUE) : dom.nodes[i].opacity = low
            /\ \A i \in OtherNodes(FALSE) :
                  low < dom.nodes[i].opacity /\ dom.nodes[i].opacity < 10

\* C6 amended: in test2 and part_000 every other node of n's category is at
\* the low opacity 0.3 and every node of the other category at the middle
\* opacity 0.7; in test4 every node other than n, of either category, is at
\* the one low opacity 0.1 and there is no middle level.
C6_Dimming ==
    Focused =>
        IF variant = "test4"
        THEN \A i \in OtherNodes(TRUE) \cup OtherNodes(FALSE) : dom.nodes[i].opacity = 1
        ELSE /\ \A i \in OtherNodes(TRUE) : dom.nodes[i].opacity = 3
             /\ \A i \in OtherNodes(FALSE) : dom.nodes[i].opacity = 7

\* a primary node in focus with another primary node and a secondary node
C6_Witness ==
    /\ Focused /\ FocusIsPrimary
    /\ OtherNodes(TRUE) # {} /\ OtherNodes(FALSE) # {}

\* C7: on entering Focused(n), in every page, the labels of all other nodes
\* of n's category drop to the low opacity and the label of n keeps full
\* opacity.
C7_LabelsDimmed ==
    Focused =>
        LET low == IF variant = "test4" THEN 1 ELSE 3
        IN  \A i \in 1..Len(AllLabels) :
                IF AllLabels[i].d.index = FocusNode.index
                THEN AllLabels[i].opacity = 10
                ELSE (IsLeftSide(AllLabels[i].d, dom.width) = FocusIsPrimary)
                         => AllLabels[i].opacity = low

-----------------------------------------------------------------------------
(* Loading and drawing *)

Failed == cause \in { "rejected", "empty", "invalid", "drawthrew" }

\* the fallback Dataset is stored and is what the container shows
FallbackShown ==
    /\ currentData = FallbackData
    /\ Drawn => (lastDraw[Len(lastDraw)].data = FallbackData /\ dom.gen = draws)

\* C8: in every page, when the fetch rejects, parsing throws or the result
\* has zero rows, loadData finishes with loading = false and with a non-null
\* error message or the fallback Dataset stored and drawn; it never finishes
\* with the error message and currentData both null.
C8_FailureSurfaces ==
    /\ (fetch = "settled" /\ Failed) =>
          /\ loading = FALSE
          /\ error # Null \/ FallbackShown
    /\ fetch = "settled" => ~(error = Null /\ currentData = Null)

\* a failed load in part_000: message set and the fallback on screen
C8_Witness ==
    /\ fetch = "settled" /\ cause = "empty" /\ variant = "part000"
    /\ error # Null /\ FallbackShown /\ Drawn

\* C9 (draw calls): no draw is performed while loading is true or before a
\* Dataset is stored, and every draw, by the load or by a resize signal, is
\* given the whole Dataset that currentData holds at that moment.
C9_DrawsStoredData ==
    \A i \in 1..Len(lastDraw) :
        /\ lastDraw[i].loading = FALSE
        /\ lastDraw[i].stored # Null
        /\ lastDraw[i].data = lastDraw[i].stored
        /\ lastDraw[i].by = "resize" => lastDraw[i].data = currentData

\* C9 (resize signals): a resize signal that arrives when loading is false
\* and currentData is non-null performs a draw of currentData.
C9_ResizeDraws ==
    [][ (event' = "resize" /\ ~loading /\ currentData # Null) =>
            /\ draws' = draws + 1
            /\ lastDraw' = << [by |-> "resize", data |-> currentData,
                                loading |-> FALSE, stored |-> currentData] >> ]_vars

\* C9: for every interleaving of resize signals with the pending fetch, both
\* of the above.
C9_NoPartialDraw == []C9_DrawsStoredData /\ C9_ResizeDraws

\* a resize redraw of the Dataset that the load stored and drew
C9_Witness ==
    /\ event = "resize" /\ draws = 2 /\ variant = "test2"
    /\ lastDraw # << >> /\ lastDraw[1].by = "resize"
    /\ lastDraw[1].data = currentData

\* C10: after one or more draws the visual elements that exist, the chart
\* elements in the container and the tooltip elements appended to the
\* document body, are exactly those created by the most recent draw.
C10_OnlyLatestDraw ==
    Drawn =>
        /\ dom.gen = draws
        /\ \A i \in 1..Len(body) : body[i].gen = draws
        /\ Config(variant).tooltip => Len(body) = 1

-----------------------------------------------------------------------------
(* Claims about the transformers, continued (SpecT) *)

LinksTo(data, target) ==
    SelectSeq(data.links, LAMBDA l : l.target = target)

\* C11: in test4 a row whose theme field lists n values separated by ';'
\* (each trimmed) gives exactly n links, all to that row's event node, all
\* of weight 1 and with the row's title, description and year, one per
\* listed value in the order listed, with that value as theme and its node
\* as source; "A;B" gives exactly 2 links.
C11_FanOut ==
    (variant = "test4" /\ out # Null) =>
        \E sorted \in Test4_sortOutcomes(csv) :
            \A i \in 1..Len(sorted) :
                LET k == Len(Test4_themes(csv))
                    listed == SplitThemes(sorted[i].Theme)
                    fan == LinksTo(out, k + (i - 1))
                IN  /\ Len(fan) = Len(listed)
                    /\ sorted[i].Theme = << "A", ";", "B" >> => Len(fan) = 2
                    /\ \A j \in 1..Len(fan) :
                          /\ fan[j].value = 1
                          /\ fan[j].description = sorted[i].Title
                          /\ fan[j].fullDescription = sorted[i].Description
                          /\ fan[j].year = ParseInt(sorted[i].Year)
                          /\ fan[j].theme = listed[j]
                          /\ out.nodes[fan[j].source + 1].name = listed[j]
                          /\ out.nodes[fan[j].source + 1].type = "theme"

\* the one row "B; A": two links to one event node from two theme nodes
C11_Witness ==
    /\ variant = "test4" /\ out # Null /\ Len(csv) = 1
    /\ csv[1].Theme = << "B", ";", " ", "A" >>
    /\ Len(out.links) = 2
    /\ out.links[1].target = out.links[2].target
    /\ out.links[1].source # out.links[2].source

\* C14: in test2 there are as many primary nodes as distinct Theme values
\* and as many secondary nodes as distinct Year values, and one link of
\* weight 1 per row, in row order, from the node of the row's Theme to the
\* node of the row's Year; rows with equal Theme and Year give parallel
\* links.
C14_OneLinkPerRow ==
    (variant = "test2" /\ out # Null) =>
        /\ Cardinality(NodesOfType(out, { "theme" }))
              = Cardinality(Range(Column(csv, "Theme")))
        /\ Cardinality(NodesOfType(out, { "year" }))
              = Cardinality(Range(Column(csv, "Year")))
        /\ Len(out.nodes) = Cardinality(Range(Column(csv, "Theme")))
                              + Cardinality(Range(Column(csv, "Year")))
        /\ Len(out.links) = Len(csv)
        /\ \A i \in 1..Len(csv) :
              /\ out.links[i].value = 1
              /\ \A n \in NodesWithId(out, out.links[i].source) :
                    n.type = "theme" /\ n.name = csv[i].Theme
              /\ \A n \in NodesWithId(out, out.links[i].target) :
                    n.type = "year" /\ n.name = csv[i].Year
              /\ Cardinality(NodesWithId(out, out.links[i].source)) = 1
              /\ Cardinality(NodesWithId(out, out.links[i].target)) = 1

\* two rows of one theme in two years: 1 primary node, 2 secondary nodes
\* and 2 links of weight 1 from the theme to each year
C14_Witness ==
    /\ variant = "test2" /\ out # Null /\ Len(csv) = 2
    /\ csv[1].Theme = csv[2].Theme /\ csv[1].Year # csv[2].Year
    /\ Cardinality(NodesOfType(out, { "theme" })) = 1
    /\ Cardinality(NodesOfType(out, { "year" })) = 2
    /\ Len(out.links) = 2
    /\ out.links[1].source = 0 /\ out.links[2].source = 0
    /\ out.links[1].target = 1 /\ out.links[2].target = 2

\* a <= b on numbers: false when either is NaN
LessEq(a, b) == a # NaN /\ b # NaN /\ a <= b

\* every row's Year parses to an integer
AllYearsParse == \A i \in 1..Len(csv) : ParseInt(Field(csv[i], "Year")) # NaN

\* the event nodes are the rows, one node each, in ascending order of the
\* integer year and, for equal years, of the raw theme strings, with the
\* ids k, k+1, ... in that order
EventNodesInYearOrder ==
    LET k == Len(Test4_themes(csv))
        m == Len(csv)
        year(i) == ParseInt(csv[i].Year)
    IN  /\ Len(out.nodes) = k + m
        /\ \E p \in Bijections(m) :
              \A i \in 1..m :
                  LET n == out.nodes[k + i]
                      fan == LinksTo(out, k + (i - 1))
                  IN  /\ n.type = "event" /\ n.id = k + (i - 1)
                      /\ n.year = year(p[i]) /\ n.title = csv[p[i]].Title
                      /\ [j \in 1..Len(fan) |-> fan[j].theme]
                            = SplitThemes(csv[p[i]].Theme)
                      /\ \A j \in (i + 1)..m :
                            \/ LessEq(year(p[i]), year(p[j])) /\ year(p[i]) # year(p[j])
                            \/ /\ year(p[i]) = year(p[j]) /\ year(p[i]) # NaN
                               /\ LocaleCompare(csv[p[i]].Theme, csv[p[j]].Theme) <= 0
        /\ \A a, b \in NodesOfType(out, { "event" }) :
              a.id < b.id => LessEq(a.year, b.year)

\* the transformer leaves the array of rows it was given as it was
C24_InputUntouched == [][csv' = csv]_vars

\* C24 as stated, for every input: in test4 one event node per row, the
\* rows ordered by ascending integer year, ties by the raw theme strings,
\* the row at sorted position i with id k+i, so that year(a) <= year(b) for
\* event nodes with ids a < b; the input array keeps its order.
C24_OriginalOrder ==
    (variant = "test4" /\ out # Null) => EventNodesInYearOrder

C24_Original == []C24_OriginalOrder /\ C24_InputUntouched

\* C24 amended (state): the same, for rows whose Year each parses to an
\* integer.
C24_ParsedYearOrder ==
    (variant = "test4" /\ out # Null /\ AllYearsParse) => EventNodesInYearOrder

\* C24 amended: when every row's Year parses to an integer, one event node
\* per row in ascending year order, ties by the raw theme strings, ids k+i,
\* year(a) <= year(b) for ids a < b; the input array keeps its order.
C24_EventOrder == []C24_ParsedYearOrder /\ C24_InputUntouched

\* two rows of one year given as "B" then "A": the tie is broken by the
\* theme strings and the row of "A" gets the first event node
C24_Witness ==
    /\ variant = "test4" /\ out # Null /\ Len(csv) = 2
    /\ csv[1].Year = csv[2].Year /\ ParseInt(csv[1].Year) # NaN
    /\ csv[1].Theme = << "B" >> /\ csv[2].Theme = << "A" >>
    /\ Len(out.nodes) = 4
    /\ LinksTo(out, 2) # << >> /\ LinksTo(out, 2)[1].theme = << "A" >>

-----------------------------------------------------------------------------
(* Claims about the transformers as functions (SpecP) *)

\* the names of the nodes of the given type, in node order: the category
\* list the transformer was called with
NamesOfType(data, type) ==
    LET picked == SelectSeq(data.nodes, LAMBDA n : n.type = type)
    IN  [i \in 1..Len(picked) |-> picked[i].name]

\* the references of the rows that the lists resolve, one per link due
ResolvableReferences(themes, years) ==
    IF variant = "test2"
    THEN SelectSeq(csv, LAMBDA row : /\ Field(row, "Theme") \in Range(themes)
                                     /\ Field(row, "Year") \in Range(years))
    ELSE Flatten([i \in 1..Len(csv) |->
                     SelectSeq(SplitThemes(csv[i].Theme),
                               LAMBDA t : t \in Range(themes))])

\* C12: called with a category list, the transformer of test2 and the one
\* of test4 return a Dataset in which a row's reference to a value that is
\* not in the list has no link: every link's source is the id of a listed
\* category node and its target the id of a secondary node, none negative
\* or out of range, and the links are exactly those of the resolvable
\* references.
C12_UnknownDropped ==
    out # Null =>
        LET themes == NamesOfType(out, "theme")
            years == NamesOfType(out, "year")
        IN  /\ \A i \in 1..Len(out.links) :
                  /\ out.links[i].source \in 0..(Len(themes) - 1)
                  /\ out.links[i].target \in Len(themes)..(Len(out.nodes) - 1)
            /\ Len(out.links) = Len(ResolvableReferences(themes, years))

\* C12 for test4 alone
C12_Test4Dropped == variant = "test4" => C12_UnknownDropped

-----------------------------------------------------------------------------
(* Claims about optional columns (SpecO) *)

\* the field of a link that carries the row's description
LinkDescription(link) ==
    IF variant = "part000" THEN link.description ELSE link.fullDescription

DescriptionColumn == IF variant = "part000" THEN "description" ELSE "Description"

\* the file has no description column: the field is missing on every row
DescriptionMissing == \A i \in 1..Len(csv) : DescriptionColumn \notin DOMAIN csv[i]

\* C20: in part_000, test2 and test4 the description carried by every link,
\* and in test4 by every event node, is a string, never undefined, and it is
\* the empty string when the rows have no description.
C20_MissingIsEmpty ==
    out # Null =>
        /\ \A i \in 1..Len(out.links) :
              /\ LinkDescription(out.links[i]) # Undefined
              /\ DescriptionMissing => LinkDescription(out.links[i]) = << >>
        /\ \A n \in NodesOfType(out, { "event" }) :
              /\ n.description # Undefined
              /\ DescriptionMissing => n.description = << >>

\* C20 for part_000 alone
C20_PartIsEmpty == variant = "part000" => C20_MissingIsEmpty

-----------------------------------------------------------------------------
(* Claims about failed loads and teardown (Spec) *)

\* C15: in part_000, once a load has failed, by a rejected fetch, zero rows,
\* no node rows, no link rows or a throw while the CSV Dataset was drawn,
\* currentData is the hard-coded fallback Dataset, 9 nodes with the ids 0..8
\* and 14 links, loading is false and nothing of the CSV Dataset is left in
\* currentData.
C15_FallbackAfterFailure ==
    (variant = "part000" /\ fetch = "settled" /\ Failed) =>
        /\ loading = FALSE
        /\ currentData = FallbackData
        /\ Len(currentData.nodes) = 9
        /\ [i \in 1..9 |-> currentData.nodes[i].id] = [i \in 1..9 |-> i - 1]
        /\ Len(currentData.links) = 14

\* the CSV Dataset was stored and its draw threw; the fallback replaced it
\* and is on screen
C15_Witness ==
    /\ variant = "part000" /\ fetch = "settled" /\ cause = "drawthrew"
    /\ currentData = FallbackData /\ Drawn
    /\ Len(lastDraw) = 2 /\ lastDraw[1].data # FallbackData
    /\ lastDraw[2].data = FallbackData

\* C16: a non-null currentData has at least one node and at least one link,
\* in every page; and in part_000 rows among which there is no node row or
\* no link row end the load with the error 'Invalid or empty CSV data' and
\* the fallback Dataset in place of theirs.
C16_EmptyIsFailure ==
    /\ currentData # Null =>
          Len(currentData.nodes) > 0 /\ Len(currentData.links) > 0
    /\ (variant = "part000" /\ cause = "invalid") =>
          /\ error = Message("Invalid or empty CSV data")
          /\ currentData = FallbackData

\* part_000 was given rows without a node row or without a link row
C16_Witness ==
    /\ variant = "part000" /\ event = "resolve" /\ cause = "invalid"
    /\ error = Message("Invalid or empty CSV data")
    /\ currentData = FallbackData /\ Drawn

\* C17: after the component's teardown no draw is performed again, neither
\* by a resize signal, the observer being disconnected, nor by a fetch that
\* resolves afterwards, its draw being skipped for want of the container;
\* the removed view stays empty.
C17_NoDrawAfterTeardown ==
    [][ phase = "unmounted" =>
            /\ draws' = draws /\ lastDraw' = lastDraw
            /\ dom' = Null /\ body' = body
            /\ observer' = FALSE ]_vars

\* the fetch resolved with rows after the teardown: stored, never drawn
C17_Witness ==
    /\ phase = "unmounted" /\ event = "resolve"
    /\ currentData # Null /\ loading = FALSE
    /\ draws = 0 /\ dom = Null /\ ~observer

\* C18: a draw requested while the chart container is not attached is
\* skipped without a trace, nothing drawn and no error recorded for it; and
\* once the container is attached and a Dataset is stored, a resize signal
\* reaches the redraw, the observer being connected, also when the
\* container was not attached when the observer was set up at mount.
C18_SkipThenRetry ==
    /\ (event = "resolve" /\ ~container) =>
          /\ draws = 0 /\ dom = Null /\ lastDraw = << >>
          /\ cause = "ok" => error = Null
    /\ (phase = "mounted" /\ container /\ ~loading /\ currentData # Null) =>
          observer

\* C19 (state): in test2 and test4, once the load has failed, currentData
\* is null and the error message is set.
C19_FailureStays ==
    (variant \in { "test2", "test4" } /\ fetch = "settled" /\ Failed) =>
        currentData = Null /\ error # Null

\* C19 (steps): the fetch is started by the mount alone, once, and after it
\* has settled no resize signal and no hover starts another; after a failed
\* load in test2 and test4 no step changes currentData or the message.
C19_NoSecondFetch ==
    [][ /\ (fetch' = "pending" /\ fetch # "pending") =>
              (event' = "mount" /\ fetch = "idle" /\ phase = "created")
        /\ fetch = "settled" => fetch' = "settled"
        /\ phase # "created" => fetch' # "idle"
        /\ (variant \in { "test2", "test4" } /\ fetch = "settled" /\ Failed) =>
              (currentData' = currentData /\ error' = error) ]_vars

\* C19: the load is started exactly once per mount and a failed load is
\* never retried; both of the above.
C19_NoRetry == []C19_FailureStays /\ C19_NoSecondFetch

\* a resize signal after a failed load in test2
C19_Witness ==
    /\ variant = "test2" /\ fetch = "settled" /\ Failed
    /\ event = "resize" /\ phase = "mounted"
    /\ currentData = Null /\ error # Null

-----------------------------------------------------------------------------
(* Claims about weights, listeners and repeated hovers (Spec) *)

\* C21: every link of a Dataset stored in currentData has a numeric weight
\* of 0 or more, the constant 1 in test2 and test4 and in part_000 the
\* integer parsed from the row's value field, whatever string it holds.
C21_WeightNonNegative ==
    currentData # Null =>
        \A i \in 1..Len(currentData.links) :
            /\ currentData.links[i].value # NaN
            /\ currentData.links[i].value >= 0
            /\ variant \in { "test2", "test4" } => currentData.links[i].value = 1

\* C21 for test2 and test4 alone
C21_ConstantWeight == variant \in { "test2", "test4" } => C21_WeightNonNegative

HoverEvents == { "nodeenter", "nodeleave", "linkenter", "linkleave" }

\* the data bound to the elements of a selection
Data(sel) == [i \in 1..Len(sel) |-> sel[i].d]

\* C22 (state): the elements in the container, the only ones that carry
\* hover listeners, are those of the most recent draw.
C22_ElementsOfLatestDraw == dom # Null => dom.gen = draws

\* C22 (steps): a hover handler runs on elements of the most recent draw and
\* restyles that draw's links, nodes and labels only: no draw happens, the
\* same elements with the same data remain, and of the tooltips only the
\* one of that draw may change.
C22_HandlersOnLatestDraw ==
    [][ event' \in HoverEvents =>
            /\ dom # Null /\ dom.gen = draws
            /\ draws' = draws /\ dom'.gen = dom.gen
            /\ dom'.result = dom.result /\ dom'.width = dom.width
            /\ Data(dom'.links) = Data(dom.links)
            /\ Data(dom'.nodes) = Data(dom.nodes)
            /\ Data(dom'.flowLabels) = Data(dom.flowLabels)
            /\ Len(body') = Len(body)
            /\ \A i \in 1..Len(body) : body'[i] # body[i] => body[i].gen = draws ]_vars

\* C22: each draw clears, rebuilds and attaches its listeners in one step;
\* both of the above.
C22_ClearBeforeListeners == []C22_ElementsOfLatestDraw /\ C22_HandlersOnLatestDraw

\* a node of the second draw is entered
C22_Witness ==
    /\ event = "nodeenter" /\ draws = 2 /\ Drawn /\ dom.gen = 2
    /\ hover # Null /\ hover.kind = "node"

\* the elements of the current draw as the draw made them
AsDrawn == CreateChartElements(variant, dom.gen, dom.result, dom.width)

\* C23: while node n is in focus the opacity and stroke width of every
\* link, node and label, n's own included, are what they are when n is the
\* first node entered after the draw, whatever enter/leave pairs went
\* before.
C23_FocusDependsOnNodeOnly ==
    Focused => dom = NodeMouseEnter(variant, AsDrawn, FocusNode)

\* C23 for test2 and part_000 alone
C23_StatelessWithoutTest4 == variant # "test4" => C23_FocusDependsOnNodeOnly

DrawEvents == { "resolve", "reject", "resize" }

\* C25: right after a draw, before any hover, every link, node and label
\* has the opacity and stroke width that resetHighlighting gives it, and
\* back in Idle after enter/leave pairs the diagram looks exactly as drawn.
C25_DrawnIsBaseline ==
    /\ (Drawn /\ event \in DrawEvents) => NodeMouseLeave(variant, dom) = dom
    /\ (Idle /\ event = "nodeleave") => dom = AsDrawn

\* C25 for test2 and part_000 alone
C25_BaselineWithoutTest4 == variant # "test4" => C25_DrawnIsBaseline

VisibleTooltips == { i \in 1..Len(body) : body[i].visible }

\* C26: in test2 and test4 at most one tooltip is visible at any time, and
\* one is visible only while the pointer is over a link of the current
\* draw, the tooltip being that draw's: none is visible after the link's
\* pointer-leave or after a redraw, a resize redraw under a hovered link
\* included.
C26_TooltipOnlyOverLink ==
    Config(variant).tooltip =>
        /\ Cardinality(VisibleTooltips) <= 1
        /\ \A i \in VisibleTooltips :
              /\ Drawn /\ hover # Null /\ hover.kind = "link"
              /\ body[i].gen = draws

\* C26 without redraws and teardown: while the first draw is on screen
C26_FirstDrawOnly ==
    (draws <= 1 /\ phase = "mounted") => C26_TooltipOnlyOverLink

\* each node's id is its zero-based position in the nodes array
IdIsPosition(data) == \A j \in 1..Len(data.nodes) : data.nodes[j].id = j - 1

\* C27: in every Dataset handed to the layout each node's id is its
\* zero-based position in the nodes array, so that a link's source and
\* target, resolved by position, denote the node with that id: for test2,
\* test4, the fallback and part_000's CSV rows, whatever their ids and order.
C27_IdIsPosition ==
    \A i \in 1..Len(lastDraw) : IdIsPosition(lastDraw[i].data)

\* C27 for test2, test4 and the fallback Dataset
C27_DerivedIdIsPosition ==
    \A i \in 1..Len(lastDraw) :
        (variant # "part000" \/ lastDraw[i].data = FallbackData)
            => IdIsPosition(lastDraw[i].data)

====
